---- MODULE Spec2Model ----
(***************************************************************************)
(* Model of All_CA_Streamlit.py: the address lookup pipeline               *)
(* get_city_county (geocode -> reprojection -> county query -> city query  *)
(* -> field reconciliation) and its helper functions.                      *)
(*                                                                         *)
(* Encoding of Python values                                               *)
(*   None            the empty set {}                                      *)
(*   a value v       the singleton {v} wherever None is also possible      *)
(*   str             a sequence of tokens; a token is one whitespace       *)
(*                   character, one comma, or a run of other characters    *)
(*                   ("" is <<>>, " " is <<" ">>, "Kern" is <<"Kern">>)    *)
(*   dict / JSON     a function from the keys that are present             *)
(*   float degrees   an integer count of 1.8e-7 degree, the unit in which  *)
(*                   85.05112878 is the integer 472506271 and 90 degrees   *)
(*                   is 500000000                                          *)
(***************************************************************************)
EXTENDS Integers, Sequences, FiniteSets, TLC

VARIABLES pc, address, requests, response, lat, lon, postal_city, x, y,
          county_attrs, county_name, city_attrs, city_name, result, error,
          fn, fn_pc, attrs, keys, ef_ret, wm_lat, wm_lon, wm_ret

vars == <<pc, address, requests, response, lat, lon, postal_city, x, y,
          county_attrs, county_name, city_attrs, city_name, result, error,
          fn, fn_pc, attrs, keys, ef_ret, wm_lat, wm_lon, wm_ret>>

lookup_vars == <<pc, address, requests, response, lat, lon, postal_city, x, y,
                 county_attrs, county_name, city_attrs, city_name, result, error>>

fn_vars == <<fn, fn_pc, attrs, keys, ef_ret, wm_lat, wm_lon, wm_ret>>

(***************************************************************************)
(* Bounds of the model                                                     *)
(***************************************************************************)
\* longest matched-address string of a geocoder candidate, in tokens
MaxAddrLen == 4
\* longest run of whitespace in an attribute value
MaxBlank == 2
\* most candidates / features in one response
MaxItems == 2
\* longest candidate-key list handed to extract_first directly
MaxKeys == 2
\* latitudes tried on each side of each clamp limit, in units
Margin == 2

(***************************************************************************)
(* Python values                                                           *)
(***************************************************************************)
None == {}

Some(v) == {v}

Val(o) == CHOOSE v \in o : TRUE

\* dict.get(k): the value under k, None when k is not a key
get(d, k) == IF k \in DOMAIN d THEN d[k] ELSE None

\* dict.get(k, default)
get_default(d, k, default) == IF k \in DOMAIN d THEN d[k] ELSE Some(default)

\* truth value of "not v" for v None or a number
not_(v) == v = None \/ Val(v) = 0

WhiteSpace == {" "}

\* sep in s
contains(s, sep) == \E i \in 1..Len(s) : s[i] = sep

\* s.split(sep)
RECURSIVE split(_, _)
split(s, sep) ==
    IF ~contains(s, sep) THEN <<s>>
    ELSE LET i == CHOOSE i \in 1..Len(s) :
                      s[i] = sep /\ \A j \in 1..(i - 1) : s[j] # sep
         IN <<SubSeq(s, 1, i - 1)>> \o split(SubSeq(s, i + 1, Len(s)), sep)

RECURSIVE lstrip(_)
lstrip(s) == IF s # <<>> /\ Head(s) \in WhiteSpace THEN lstrip(Tail(s)) ELSE s

RECURSIVE rstrip(_)
rstrip(s) ==
    IF s # <<>> /\ s[Len(s)] \in WhiteSpace
    THEN rstrip(SubSeq(s, 1, Len(s) - 1)) ELSE s

\* s.strip()
strip(s) == rstrip(lstrip(s))

\* outcome of a function call: an exception raised, or a value returned
Raise(e) == [raised |-> Some(e), ret |-> None]

Return(v) == [raised |-> None, ret |-> Some(v)]

(***************************************************************************)
(* HTTP: the value of requests.get(url, params=..., timeout=15)            *)
(*   exc     the exception requests.get itself raises ("none": a response) *)
(*   status  the HTTP status of the response                               *)
(*   body    what r.json() finds: json is "invalid" (not JSON), "array"    *)
(*           (JSON, but no object) or "object" with the parsed dict data   *)
(***************************************************************************)
Failure(e) == [exc |-> e, status |-> 0, body |-> [json |-> "invalid", data |-> <<>>]]

Http(status, body) == [exc |-> "none", status |-> status, body |-> body]

Object(data) == [json |-> "object", data |-> data]

NotJson == [json |-> "invalid", data |-> <<>>]

JsonArray == [json |-> "array", data |-> <<>>]

\* the status is never looked at
raise_for_status_ignored(r) == FALSE

\* r.raise_for_status()
raise_for_status(r) == r.status >= 400

(***************************************************************************)
(* geocode_address, from the response r of line 24 on                      *)
(***************************************************************************)
\* "is None" in place of "not": an empty list passes
no_candidates_none_only(candidates) == candidates = None

\* line 27: not data.get("candidates")
no_candidates(candidates) == candidates = None \/ Val(candidates) = <<>>

\* the segment is not stripped
postal_city_unstripped(match_addr) ==
    IF contains(match_addr, ",") THEN Some(split(match_addr, ",")[2]) ELSE None

\* line 32: the postal city of a matched address
postal_city_of(match_addr) ==
    IF contains(match_addr, ",")
    THEN Some(strip(split(match_addr, ",")[2]))
    ELSE None

geocode_address(r) ==
    IF r.exc # "none" THEN Raise(r.exc)
    ELSE IF raise_for_status(r) THEN Raise("HTTPError")
    ELSE IF r.body.json = "invalid" THEN Raise("JSONDecodeError")
    ELSE IF r.body.json # "object" THEN Raise("AttributeError")
    ELSE LET data == r.body.data
             candidates == get(data, "candidates")
         IN  IF no_candidates(candidates) THEN Return(<<None, None, None>>)
             ELSE IF Val(candidates) = <<>> THEN Raise("IndexError")
             ELSE LET candidate == Val(candidates)[1]
                  IN  IF "location" \notin DOMAIN candidate THEN Raise("KeyError")
                      ELSE LET loc == candidate["location"]
                               match_addr == get_default(candidate, "address", <<>>)
                           IN  IF match_addr = None THEN Raise("TypeError")
                               ELSE Return(<<Some(loc.y), Some(loc.x),
                                             postal_city_of(Val(match_addr))>>)

(***************************************************************************)
(* wgs84_to_web_mercator                                                   *)
(***************************************************************************)
\* 85.05112878 degrees
max_lat == 472506271

Min(a, b) == IF a <= b THEN a ELSE b

Max(a, b) == IF a >= b THEN a ELSE b

\* the upper limit is not applied
clamp_lower_only(lat_) == Max(lat_, 0 - max_lat)

\* line 39: lat = max(min(lat, max_lat), -max_lat)
clamp(lat_) == Max(Min(lat_, max_lat), 0 - max_lat)

\* line 41: the real number lon * origin_shift / 180.0, kept as the term in lon
merc_x(lon_) == [expr |-> "lon * origin_shift / 180.0", lon |-> lon_]

\* line 42: the real number log(tan((90 + lat) * pi / 360)) * origin_shift / pi,
\* kept as the term in lat (the function is strictly increasing on (-90, 90))
merc_y(lat_) ==
    [expr |-> "log(tan((90.0 + lat) * pi / 360.0)) * origin_shift / pi", lat |-> lat_]

wgs84_to_web_mercator(lat_, lon_) == <<merc_x(lon_), merc_y(clamp(lat_))>>

(***************************************************************************)
(* query_polygon_layer_point, from the response r of line 58 on            *)
(***************************************************************************)
query_polygon_layer_point(r) ==
    IF r.exc # "none" THEN Raise(r.exc)
    ELSE IF raise_for_status(r) THEN Raise("HTTPError")
    ELSE IF r.body.json = "invalid" THEN Raise("JSONDecodeError")
    ELSE IF r.body.json # "object" THEN Raise("AttributeError")
    ELSE LET data == r.body.data
             features == get(data, "features")
             feats == IF features = None THEN <<>> ELSE Val(features)
         IN  IF feats = <<>> THEN Return(None)
             ELSE IF "attributes" \notin DOMAIN feats[1] THEN Raise("KeyError")
             ELSE Return(feats[1]["attributes"])

(***************************************************************************)
(* extract_first                                                           *)
(***************************************************************************)
\* line 71: v not in (None, "", " ")
usable(v) == v \notin {None, Some(<<>>), Some(<<" ">>)}

RECURSIVE first_usable(_, _)
first_usable(d, ks) ==
    IF ks = <<>> THEN None
    ELSE IF usable(get(d, Head(ks))) THEN get(d, Head(ks))
    ELSE first_usable(d, Tail(ks))

extract_first(attrs_, keys_) ==
    IF attrs_ = None \/ DOMAIN Val(attrs_) = {} THEN None
    ELSE first_usable(Val(attrs_), keys_)

(***************************************************************************)
(* What the remote services may answer                                     *)
(***************************************************************************)
StringsUpTo(alphabet, n) == UNION {[1..k -> alphabet] : k \in 0..n}

\* the lists of 1..n items whose first item is in firsts, the others in others
ListsFrom(firsts, others, n) ==
    UNION {{<<f>> \o t : f \in firsts, t \in [1..k -> others]} : k \in 0..(n - 1)}

\* every answer to one request: no response at all, an error status, or a
\* success status with one of the bodies
Responses(bodies, good) ==
    {Failure("Timeout"), Failure("ConnectionError")}
    \cup {Http(st, b) : st \in {404, 500}, b \in {NotJson, good}}
    \cup {Http(200, b) : b \in bodies}

Addresses == {"1 Main St, Bakersfield", " 9 Elm Rd "}

\* matched-address strings: "w" is any run of other characters
MatchAddrs == StringsUpTo({"w", ",", " "}, MaxAddrLen)

\* 0 degrees, 36 degrees, 86.4 degrees
GeoLats == {0, 200000000, 480000000}

\* 0 degrees, -118.8 degrees
GeoLons == {0, 0 - 660000000}

Candidates ==
    {[location |-> [y |-> la, x |-> lo]] : la \in GeoLats, lo \in GeoLons}
    \cup {[location |-> [y |-> la, x |-> lo], address |-> a] :
             la \in GeoLats, lo \in GeoLons,
             a \in {None} \cup {Some(m) : m \in MatchAddrs}}
    \cup {[address |-> Some(<<"w", ",", "w">>)]}

OtherCandidate ==
    [location |-> [y |-> 100000000, x |-> 100000000], address |-> Some(<<"w", ",", "o">>)]

GeocodeBodies ==
    {NotJson, JsonArray, Object(<<>>), Object([candidates |-> None]),
     Object([candidates |-> Some(<<>>)])}
    \cup {Object([candidates |-> Some(l)]) :
             l \in ListsFrom(Candidates, {OtherCandidate}, MaxItems)}

GeocodeResponses ==
    Responses(GeocodeBodies,
              Object([candidates |-> Some(<<[location |-> [y |-> 200000000, x |-> 0 - 660000000]]>>)]))

Blanks == {[i \in 1..k |-> " "] : k \in 0..MaxBlank}

Names == {<<"Kern">>, <<"Alameda">>}

AttrVals == {None} \cup {Some(v) : v \in Blanks \cup Names}

Dicts(fields) == UNION {[D -> AttrVals] : D \in SUBSET fields}

Features(fields) ==
    {<<>>, [attributes |-> None]} \cup {[attributes |-> Some(d)] : d \in Dicts(fields)}

OtherFeature(fields) == [attributes |-> Some([k \in fields |-> Some(<<"Other">>)])]

QueryBodies(fields) ==
    {NotJson, JsonArray, Object(<<>>), Object([features |-> None]),
     Object([features |-> Some(<<>>)])}
    \cup {Object([features |-> Some(l)]) :
             l \in ListsFrom(Features(fields), {OtherFeature(fields)}, MaxItems)}

QueryResponses(fields) ==
    Responses(QueryBodies(fields),
              Object([features |-> Some(<<[attributes |-> Some([k \in fields |-> Some(<<"Kern">>)])]>>)]))

(***************************************************************************)
(* get_city_county, one action per blocking remote call                    *)
(***************************************************************************)
COUNTY_FIELDS == <<"County", "POLYGON_NM">>

CITY_FIELDS == <<"NAME">>

Unincorporated == <<"Unincorporated">>

Range(s) == {s[i] : i \in 1..Len(s)}

GeocodeRequest(address_) ==
    [url |-> "GEOCODE_URL", singleLine |-> Some(address_), geometry |-> None,
     outFields |-> "Match_addr,Addr_type"]

QueryRequest(x_, y_, url_, out_fields) ==
    [url |-> url_, singleLine |-> None, geometry |-> Some(<<x_, y_>>),
     outFields |-> out_fields]

\* the sentinel is left out
city_label_empty(city_name_) == IF city_name_ = None THEN <<>> ELSE Val(city_name_)

\* lines 94-97
city_label(city_name_) == IF city_name_ = None THEN Unincorporated ELSE Val(city_name_)

NoResponse == Failure("none")

Idle ==
    /\ pc = "idle" /\ address = "" /\ requests = <<>> /\ response = NoResponse
    /\ lat = None /\ lon = None /\ postal_city = None /\ x = None /\ y = None
    /\ county_attrs = None /\ county_name = None
    /\ city_attrs = None /\ city_name = None
    /\ result = None /\ error = None

NoCall ==
    /\ fn = "none" /\ fn_pc = "none" /\ attrs = None /\ keys = <<>> /\ ef_ret = None
    /\ wm_lat = 0 /\ wm_lon = 0 /\ wm_ret = None

Init == Idle /\ NoCall

\* lines 119-122, 78, 18-24: the caller hands an address to get_city_county,
\* which sends the geocode request and blocks for its answer
Resolve(address_) ==
    /\ pc = "idle"
    /\ pc' = "geocode"
    /\ address' = address_
    /\ requests' = <<GeocodeRequest(address_)>>
    /\ response' \in GeocodeResponses
    /\ UNCHANGED <<lat, lon, postal_city, x, y, county_attrs, county_name,
                   city_attrs, city_name, result, error>>
    /\ UNCHANGED fn_vars

\* an exception leaves get_city_county
Raised(e) ==
    /\ pc' = "raised"
    /\ error' = e
    /\ response' = NoResponse
    /\ UNCHANGED <<address, requests, result>>

\* lines 24-33, 78-86, 46-58: the geocode answer is read; on a hit the point
\* is reprojected and the county query is sent
GeocodeDone ==
    /\ pc = "geocode"
    /\ LET g == geocode_address(response)
       IN  IF g.raised # None
           THEN /\ Raised(g.raised)
                /\ UNCHANGED <<lat, lon, postal_city, x, y>>
           ELSE /\ lat' = Val(g.ret)[1]
                /\ lon' = Val(g.ret)[2]
                /\ postal_city' = Val(g.ret)[3]
                /\ IF not_(lat') \/ not_(lon')
                   THEN /\ pc' = "done"
                        /\ result' = None
                        /\ response' = NoResponse
                        /\ UNCHANGED <<address, requests, x, y, error>>
                   ELSE /\ x' = Some(wgs84_to_web_mercator(Val(lat'), Val(lon'))[1])
                        /\ y' = Some(wgs84_to_web_mercator(Val(lat'), Val(lon'))[2])
                        /\ requests' = Append(requests,
                               QueryRequest(Val(x'), Val(y'), "COUNTY_FS_QUERY",
                                            "County,POLYGON_NM"))
                        /\ response' \in QueryResponses(Range(COUNTY_FIELDS))
                        /\ pc' = "county"
                        /\ UNCHANGED <<address, result, error>>
    /\ UNCHANGED <<county_attrs, county_name, city_attrs, city_name>>
    /\ UNCHANGED fn_vars

\* lines 58-62, 84-91: the county answer is read and reconciled, the city
\* query is sent
CountyDone ==
    /\ pc = "county"
    /\ LET q == query_polygon_layer_point(response)
       IN  IF q.raised # None
           THEN /\ Raised(q.raised)
                /\ UNCHANGED <<county_attrs, county_name>>
           ELSE /\ county_attrs' = Val(q.ret)
                /\ county_name' = extract_first(county_attrs', COUNTY_FIELDS)
                /\ requests' = Append(requests,
                       QueryRequest(Val(x), Val(y), "CITY_MS_QUERY", "NAME"))
                /\ response' \in QueryResponses(Range(CITY_FIELDS))
                /\ pc' = "city"
                /\ UNCHANGED <<address, result, error>>
    /\ UNCHANGED <<lat, lon, postal_city, x, y, city_attrs, city_name>>
    /\ UNCHANGED fn_vars

\* lines 58-62, 89-106: the city answer is read and reconciled, the result
\* is assembled and returned
CityDone ==
    /\ pc = "city"
    /\ LET q == query_polygon_layer_point(response)
       IN  IF q.raised # None
           THEN /\ Raised(q.raised)
                /\ UNCHANGED <<city_attrs, city_name>>
           ELSE /\ city_attrs' = Val(q.ret)
                /\ city_name' = extract_first(city_attrs', CITY_FIELDS)
                /\ result' = Some([address |-> address,
                                   latitude |-> Val(lat),
                                   longitude |-> Val(lon),
                                   postal_city |-> postal_city,
                                   county |-> county_name,
                                   city |-> city_label(city_name')])
                /\ response' = NoResponse
                /\ pc' = "done"
                /\ UNCHANGED <<address, requests, error>>
    /\ UNCHANGED <<lat, lon, postal_city, x, y, county_attrs, county_name>>
    /\ UNCHANGED fn_vars

\* lines 123-136: the caller shows the result or the error; nothing of the
\* call is kept for the next one
Finish ==
    /\ pc \in {"done", "raised"}
    /\ pc' = "idle" /\ address' = "" /\ requests' = <<>> /\ response' = NoResponse
    /\ lat' = None /\ lon' = None /\ postal_city' = None /\ x' = None /\ y' = None
    /\ county_attrs' = None /\ county_name' = None
    /\ city_attrs' = None /\ city_name' = None
    /\ result' = None /\ error' = None
    /\ UNCHANGED fn_vars

Next ==
    \/ \E a \in Addresses : Resolve(a)
    \/ GeocodeDone
    \/ CountyDone
    \/ CityDone
    \/ Finish

Spec == Init /\ [][Next]_vars

(***************************************************************************)
(* The pure helpers called on their own: the arguments are drawn, then the *)
(* function is applied                                                     *)
(***************************************************************************)
AllFields == {"County", "POLYGON_NM", "NAME"}

KeyLists == StringsUpTo(AllFields, MaxKeys)

Near(c) == (c - Margin)..(c + Margin)

\* 0, 36 and 90 degrees, and the latitudes around both clamp limits
LatInputs ==
    {0, 200000000, 500000000, 0 - 500000000} \cup Near(max_lat) \cup Near(0 - max_lat)

\* -180, -118.8, 0 and 180 degrees
LonInputs == {0 - 1000000000, 0 - 660000000, 0, 1000000000}

InitFn ==
    /\ Idle
    /\ fn_pc = "args" /\ ef_ret = None /\ wm_ret = None
    /\ \/ /\ fn = "extract_first"
          /\ attrs \in {None} \cup {Some(d) : d \in Dicts(AllFields)}
          /\ keys \in KeyLists
          /\ wm_lat = 0 /\ wm_lon = 0
       \/ /\ fn = "wgs84_to_web_mercator"
          /\ attrs = None /\ keys = <<>>
          /\ wm_lat \in LatInputs /\ wm_lon \in LonInputs

\* lines 65-73
ExtractFirst ==
    /\ fn = "extract_first" /\ fn_pc = "args"
    /\ fn_pc' = "returned"
    /\ ef_ret' = extract_first(attrs, keys)
    /\ UNCHANGED <<fn, attrs, keys, wm_lat, wm_lon, wm_ret>>
    /\ UNCHANGED lookup_vars

\* lines 36-43
WebMercator ==
    /\ fn = "wgs84_to_web_mercator" /\ fn_pc = "args"
    /\ fn_pc' = "returned"
    /\ wm_ret' = Some(wgs84_to_web_mercator(wm_lat, wm_lon))
    /\ UNCHANGED <<fn, attrs, keys, wm_lat, wm_lon, ef_ret>>
    /\ UNCHANGED lookup_vars

NextFn == ExtractFirst \/ WebMercator

FnSpec == InitFn /\ [][NextFn]_vars

(***************************************************************************)
(* Vocabulary of the claims, stated on the responses and not through the   *)
(* functions above                                                         *)
(***************************************************************************)
Success(r) == r.exc = "none" /\ r.status \in 200..299

TransportFailure(r) == r.exc \in {"Timeout", "ConnectionError"} \/ (r.exc = "none" /\ r.status >= 400)

\* the list under key k of the response's JSON object; empty when the body is
\* no object, the key is missing or its value is null
ListOf(r, k) ==
    IF r.body.json = "object" /\ k \in DOMAIN r.body.data /\ r.body.data[k] # None
    THEN Val(r.body.data[k]) ELSE <<>>

GeocodeMiss(r) == Success(r) /\ r.body.json = "object" /\ ListOf(r, "candidates") = <<>>

\* a first candidate with a location and with address text that is a string
\* or is missing
GeocodeHit(r) ==
    /\ Success(r) /\ ListOf(r, "candidates") # <<>>
    /\ "location" \in DOMAIN ListOf(r, "candidates")[1]
    /\ "address" \in DOMAIN ListOf(r, "candidates")[1]
           => ListOf(r, "candidates")[1]["address"] # None

FirstCandidate(r) == ListOf(r, "candidates")[1]

Urls(reqs) == [i \in 1..Len(reqs) |-> reqs[i].url]

IsBlank(s) == \A i \in 1..Len(s) : s[i] \in WhiteSpace

NonBlank(v) == v # None /\ ~IsBlank(Val(v))

Least(S) == CHOOSE m \in S : \A n \in S : m <= n

Greatest(S) == CHOOSE m \in S : \A n \in S : m >= n

\* the text between the first comma of m and the next comma or the end
SecondSegment(m) ==
    LET commas == {i \in 1..Len(m) : m[i] = ","}
        first == Least(commas)
        stop == Least({i \in commas : i > first} \cup {Len(m) + 1})
    IN  [i \in 1..(stop - first - 1) |-> m[first + i]]

\* s without its leading and trailing whitespace
Trimmed(s) ==
    LET ink == {i \in 1..Len(s) : s[i] \notin WhiteSpace}
    IN  IF ink = {} THEN <<>>
        ELSE [i \in 1..(Greatest(ink) - Least(ink) + 1) |-> s[Least(ink) + i - 1]]

ExpectedPostalCity(candidate) ==
    IF "address" \in DOMAIN candidate /\ contains(Val(candidate["address"]), ",")
    THEN Some(Trimmed(SecondSegment(Val(candidate["address"]))))
    ELSE None

\* the value of the first key of ks, in order, that d holds with a value that
\* is neither null nor an empty or whitespace-only string
ExpectedFirst(d, ks) ==
    LET good == {i \in 1..Len(ks) : ks[i] \in DOMAIN d /\ NonBlank(d[ks[i]])}
    IN  IF good = {} THEN None ELSE d[ks[Least(good)]]

(***************************************************************************)
(* The claims                                                              *)
(***************************************************************************)

\* C1: when the geocoder's response holds an empty, null or missing candidate
\* list, get_city_county returns None at once and has sent the geocode
\* request only: no query went to the county layer or to the city layer.
C1_GeocodeMissShortCircuit ==
    [][(pc = "geocode" /\ GeocodeMiss(response))
          => /\ pc' = "done"
             /\ result' = None
             /\ Urls(requests') = <<"GEOCODE_URL">>]_vars

C1_Witness ==
    /\ pc = "done" /\ result = None /\ lat = None
    /\ Urls(requests) = <<"GEOCODE_URL">>

\* C2: whenever the geocoder returns a candidate (any location, 0 included),
\* get_city_county goes on to the boundary queries with the first candidate's
\* y and x as latitude and longitude, and the result it returns after the city
\* query is a LookupResult, not None, with that latitude and longitude and the
\* input address unchanged.
C2_NoneOnlyWhenGeocodingFailed ==
    [][/\ (pc = "geocode" /\ GeocodeHit(response))
             => /\ pc' = "county"
                /\ lat' = Some(FirstCandidate(response)["location"].y)
                /\ lon' = Some(FirstCandidate(response)["location"].x)
       /\ (pc = "city" /\ pc' = "done")
             => /\ result' # None
                /\ Val(result').latitude = Val(lat)
                /\ Val(result').longitude = Val(lon)
                /\ Val(result').address = address]_vars

\* C3: a call that completes without an error has sent exactly the geocode
\* request when the geocoder returned no candidate, and exactly the geocode,
\* county and city requests, in that order and once each, when it returned one.
C3_RequestCount ==
    [][(pc # "done" /\ pc' = "done")
          => Urls(requests') =
                IF pc = "geocode" /\ ListOf(response, "candidates") = <<>>
                THEN <<"GEOCODE_URL">>
                ELSE <<"GEOCODE_URL", "COUNTY_FS_QUERY", "CITY_MS_QUERY">>]_vars

\* C4: when the answer to any of the three remote calls is a timeout, a
\* connection failure or a non-success status, get_city_county ends with that
\* error raised, returns no result, and sends no further request: the failed
\* call is not repeated and the later calls are not made.
C4_FailStopOnTransportError ==
    [][/\ (pc \in {"geocode", "county", "city"} /\ TransportFailure(response))
             => /\ pc' = "raised"
                /\ error' = Some(IF response.exc # "none" THEN response.exc ELSE "HTTPError")
                /\ result' = None
                /\ requests' = requests
       /\ pc = "raised" => (pc' = "idle" /\ requests' = <<>>)]_vars

C4_Witness ==
    /\ pc = "raised" /\ error = Some("Timeout") /\ result = None
    /\ Urls(requests) = <<"GEOCODE_URL", "COUNTY_FS_QUERY">>

C6_FirstNonEmpty ==
    (fn = "extract_first" /\ fn_pc = "returned")
       => /\ ef_ret = IF attrs = None THEN None ELSE ExpectedFirst(Val(attrs), keys)
          /\ ef_ret # None => ~IsBlank(Val(ef_ret))

\* C7: for every answer with a success status, query_polygon_layer_point
\* returns the attributes of the first feature when the feature list is not
\* empty, and otherwise None: also when the body is not JSON, is no object,
\* has no or a null feature list, or its first feature has no attributes; it
\* raises no error.
C7_BoundaryQueryResult ==
    [][(pc \in {"county", "city"} /\ Success(response))
          => /\ pc' # "raised"
             /\ (IF pc = "county" THEN county_attrs' ELSE city_attrs') =
                   IF /\ ListOf(response, "features") # <<>>
                      /\ "attributes" \in DOMAIN ListOf(response, "features")[1]
                   THEN ListOf(response, "features")[1]["attributes"]
                   ELSE None]_vars

C9_Clamping ==
    (fn = "wgs84_to_web_mercator" /\ fn_pc = "returned")
       => /\ wm_lat > max_lat
             => wm_ret = Some(wgs84_to_web_mercator(max_lat, wm_lon))
          /\ wm_lat < 0 - max_lat
             => wm_ret = Some(wgs84_to_web_mercator(0 - max_lat, wm_lon))
          /\ (wm_lat >= 0 - max_lat /\ wm_lat <= max_lat)
             => Val(wm_ret)[2] = merc_y(wm_lat)
          /\ Val(wm_ret)[1] = merc_x(wm_lon)
          /\ clamp(clamp(wm_lat)) = clamp(wm_lat)

C9_Witness ==
    /\ fn = "wgs84_to_web_mercator" /\ fn_pc = "returned"
    /\ wm_lat = max_lat + 1
    /\ wm_ret = Some(<<merc_x(wm_lon), merc_y(max_lat)>>)

\* C10: in every result get_city_county returns, city is never None and never
\* the empty string: it is the matched city record's NAME when that value is
\* not blank, and "Unincorporated" in every other case (no city feature, or a
\* NAME that is missing, null, empty or whitespace-only).
C10_CityLabelUsable ==
    (pc = "done" /\ result # None)
       => LET name == IF city_attrs = None THEN None ELSE get(Val(city_attrs), "NAME")
          IN  /\ Val(result).city # <<>>
              /\ Val(result).city = IF NonBlank(name) THEN Val(name) ELSE <<"Unincorporated">>

====
